---- MODULE Spec2Model ----
(***************************************************************************)
(* The histogram metric of package metrics: an accumulator that routes     *)
(* labelled samples into per-signature bucket arrays, estimates            *)
(* percentiles from the bucketed data and guards everything with one       *)
(* sync.RWMutex.                                                           *)
(*                                                                         *)
(* Real numbers are modelled by integers: samples and bucket starts are    *)
(* integers, a percentile p in (0, 1.0] is the rational k / PctDen with    *)
(* k in 1..PctDen (0.5 is PctMedian, 1.0 is PctDen), and                   *)
(* int(p * float64(n)) is the truncated quotient (k * n) / PctDen.  PctDen *)
(* is a multiple of 10^floatPrecision, so that percentiles closer than the *)
(* last digit formatFloat prints have a place in the model.                *)
(***************************************************************************)
EXTENDS Integers, Sequences, FiniteSets, TLC

(***************************************************************************)
(* Bounds of the model.                                                    *)
(***************************************************************************)
NumThreads == 2         \* goroutines calling into one histogram
MaxObservations == 2    \* samples the histogram holds at once (concurrent runs)
MaxConcurrentValue == 1 \* samples of the concurrent runs range over 0..MaxConcurrentValue
MaxValue == 3           \* samples of the sequential runs range over 0..MaxValue,
                        \* their bucket starts over 1..MaxValue
MaxBuckets == 3         \* longest bucketStarts array
MaxSamples == 5         \* longest sample sequence of the sequential runs
PctHalf == 2            \* the percentiles queried are the multiples of
                        \* 1 / (2 * PctHalf), and the one just below 0.5

floatPrecision == 6

RECURSIVE Pow10(_)
Pow10(n) == IF n = 0 THEN 1 ELSE 10 * Pow10(n - 1)

PctGrid == 2 * PctHalf
PctStep == Pow10(floatPrecision)
PctDen == PctGrid * PctStep
PctMedian == PctHalf * PctStep
\* The largest percentile below 0.5: it formats like 0.5.
PctBelowMedian == PctMedian - 1

Threads == 1..NumThreads
Samples == 0..MaxValue
ConcurrentSamples == 0..MaxConcurrentValue
Percentiles == {k * PctStep : k \in 1..PctGrid} \cup {PctBelowMedian}

NoThread == 0
\* What a Bucket answers for an index it does not hold.
NoValue == -1

(***************************************************************************)
(* Helpers on sequences and sets.                                          *)
(***************************************************************************)
Min(S) == CHOOSE x \in S : \A y \in S : x <= y

RECURSIVE SumSeq(_)
SumSeq(s) == IF s = <<>> THEN 0 ELSE Head(s) + SumSeq(Tail(s))

\* Strictly ascending sequences of length n over lo..hi.
RECURSIVE AscendingSeqs(_, _, _)
AscendingSeqs(n, lo, hi) ==
    IF n = 0 THEN {<<>>}
    ELSE UNION {{<<x>> \o s : s \in AscendingSeqs(n - 1, x + 1, hi)} : x \in lo..hi}

\* All orders in which the elements of a finite set can be enumerated.
RECURSIVE Orders(_)
Orders(S) ==
    IF S = {} THEN {<<>>}
    ELSE UNION {{<<x>> \o s : s \in Orders(S \ {x})} : x \in S}

\* int(x) of Go for the quotient a / b, b > 0: truncation toward zero.
TruncDiv(a, b) == IF a >= 0 THEN a \div b ELSE -((-a) \div b)

(***************************************************************************)
(* Label sets and signatures.  A label map is a set of <<name, value>>     *)
(* pairs; the nil map is a separate input.                                 *)
(***************************************************************************)
NilLabels == [isNil |-> TRUE, pairs |-> {}]
EmptyLabels == [isNil |-> FALSE, pairs |-> {}]
HandlerLabels == [isNil |-> FALSE, pairs |-> {<<"handler", "a">>}]
LabelInputs == {NilLabels, EmptyLabels, HandlerLabels}

\* utility.LabelsToSignature: a canonical, collision-free string key of a label
\* map, built from its name=value pairs.
RECURSIVE JoinPairs(_)
JoinPairs(pairs) ==
    IF pairs = {} THEN ""
    ELSE LET p == CHOOSE x \in pairs : TRUE
         IN  p[1] \o "=" \o p[2] \o ";" \o JoinPairs(pairs \ {p})

LabelsToSignature(labels) == JoinPairs(labels.pairs)

(***************************************************************************)
(* The Bucket capability: a store of samples queried by rank.  A bucket is *)
(* the ascending sequence of the samples it holds.                         *)
(***************************************************************************)
\* bucketMaker(): a fresh, empty bucket.
NewBucket == <<>>

\* Bucket.Add(value)
BucketAdd(bucket, value) ==
    LET k == Cardinality({i \in 1..Len(bucket) : bucket[i] <= value})
    IN  SubSeq(bucket, 1, k) \o <<value>> \o SubSeq(bucket, k + 1, Len(bucket))

\* Bucket.Observations()
Observations(bucket) == Len(bucket)

\* Bucket.ValueForIndex(index)
ValueForIndex(bucket, index) ==
    IF index \in 0..(Len(bucket) - 1) THEN bucket[index + 1] ELSE NoValue

\* Bucket.Reset()
BucketReset(bucket) == <<>>

(***************************************************************************)
(* State.                                                                  *)
(***************************************************************************)
VARIABLES
    bucketMaker,            \* histogram.bucketMaker
    bucketStarts,           \* histogram.bucketStarts
    reportablePercentiles,  \* histogram.reportablePercentiles
    values,                 \* histogram.values: signature -> histogramValue
    mutex,                  \* histogram.mutex
    pc,                     \* where each goroutine is in its call
    args,                   \* the arguments of the call a goroutine is running
    histogram,              \* Add's local histogram / ResetAll's loop signature
    remaining,              \* the signatures ResetAll's loop has yet to visit
    result,                 \* the value a reader has built
    lin,                    \* history: the writes applied whole, in lock order
    addCalls,               \* history: Adds per signature that got the lock since
                            \* the last ResetAll got it
    lastSnapshot,           \* history: the last snapshot taken since a write
    made                    \* history: the h.bucketMaker() calls of the Add a
                            \* goroutine is running

vars == <<bucketMaker, bucketStarts, reportablePercentiles, values, mutex, pc,
          args, histogram, remaining, result, lin, addCalls, lastSnapshot, made>>

config == <<bucketMaker, bucketStarts, reportablePercentiles>>

NoArgs == [labels |-> NilLabels, value |-> 0]
NoSignature == "<none>"
NoResult == [kind |-> "none", panicked |-> FALSE, value |-> <<>>]
EmptyMap == [s \in {} |-> 0]

Signatures == {LabelsToSignature(l) : l \in LabelInputs}

(***************************************************************************)
(* Add: series lookup or creation, routing and forwarding.                 *)
(***************************************************************************)
\* The series Add builds for an unseen signature: one fresh bucket per start.
NewHistogramValue(starts, labels) ==
    [buckets |-> [i \in 1..Len(starts) |-> NewBucket], labels |-> labels.pairs]

\* Add with the lookup of line 117 lost: a new series at every call.
AddLookupAlwaysCreates(vals, starts, labels) ==
    LET signature == LabelsToSignature(labels)
    IN  [s \in DOMAIN vals \cup {signature} |->
            IF s = signature THEN NewHistogramValue(starts, labels) ELSE vals[s]]

\* Lines 120-127: the calls of h.bucketMaker() Add makes, one per bucket start
\* when it creates the series and none when it finds it.
BucketsMade(vals, starts, labels) ==
    IF LabelsToSignature(labels) \in DOMAIN vals THEN 0 ELSE Len(starts)

\* Lines 111-129: the values map after Add has found or created the series.
AddLookup(vals, starts, labels) ==
    LET signature == LabelsToSignature(labels)
    IN  IF signature \in DOMAIN vals THEN vals
        ELSE [s \in DOMAIN vals \cup {signature} |->
                 IF s = signature THEN NewHistogramValue(starts, labels) ELSE vals[s]]

\* The scan of lines 133-139 with "value <= bucketStart" for its test.
lastIndexInclusive(starts, value) ==
    LET above == {i \in 1..Len(starts) : value <= starts[i]}
        stop == IF above = {} THEN Len(starts) + 1 ELSE Min(above)
    IN  IF stop <= 1 THEN 0 ELSE stop - 2

\* Lines 131-139: the index (from 0) of the bucket a value is forwarded to.
lastIndex(starts, value) ==
    LET above == {i \in 1..Len(starts) : value < starts[i]}
        stop == IF above = {} THEN Len(starts) + 1 ELSE Min(above)
    IN  IF stop <= 1 THEN 0 ELSE stop - 2

\* Line 141: histogram.buckets[lastIndex].Add(value).
\* Add without the forwarding of line 141: the sample is lost.
AddForwardLost(vals, starts, signature, value) == vals

AddForward(vals, starts, signature, value) ==
    LET i == lastIndex(starts, value) + 1
    IN  [vals EXCEPT ![signature].buckets[i] = BucketAdd(@, value)]

\* The whole of Add, run alone.
AddWhole(vals, starts, labels, value) ==
    AddForward(AddLookup(vals, starts, labels), starts,
               LabelsToSignature(labels), value)

\* The whole of ResetAll, run alone.
ResetAllWhole(vals) == EmptyMap

(***************************************************************************)
(* Percentile estimation.                                                  *)
(***************************************************************************)
\* observationsByBucket of bucketForPercentile.
observationsByBucket(buckets) == [i \in 1..Len(buckets) |-> Observations(buckets[i])]

\* cumulativeObservationsByBucket of bucketForPercentile.
cumulativeObservationsByBucket(obs) ==
    [i \in 1..Len(obs) |-> SumSeq(SubSeq(obs, 1, i))]

\* previousCumulativeObservations reading the bucket's own cumulative count.
previousCumulativeOffByOne(cumulativeObservations, bucketIndex) ==
    cumulativeObservations[bucketIndex + 1]

previousCumulativeObservations(cumulativeObservations, bucketIndex) ==
    IF bucketIndex = 0 THEN 0 ELSE cumulativeObservations[bucketIndex]

\* prospectiveIndexForPercentile over the total instead of the last index.
prospectiveIndexPastEnd(percentile, totalObservations) ==
    TruncDiv(percentile * totalObservations, PctDen)

prospectiveIndexForPercentile(percentile, totalObservations) ==
    TruncDiv(percentile * (totalObservations - 1), PctDen)

\* A selected element: bucket and index count from 0, as in the code.
Element(bucket, index, how) ==
    [bucket |-> bucket, index |-> index, how |-> how, panicked |-> FALSE]
Panic == [bucket |-> 0, index |-> 0, how |-> "panic", panicked |-> TRUE]

\* nextNonEmptyBucketElement scanning from the first bucket.
nextNonEmptyFromFirst(currentIndex, bucketCount, obs) ==
    LET later == {i \in 0..(bucketCount - 1) : obs[i + 1] # 0}
    IN  IF later = {} THEN Panic ELSE Element(Min(later), 0, "next")

nextNonEmptyBucketElement(currentIndex, bucketCount, obs) ==
    LET later == {i \in currentIndex..(bucketCount - 1) : obs[i + 1] # 0}
    IN  IF later = {} THEN Panic ELSE Element(Min(later), 0, "next")

\* bucketForPercentile without the skip of lines 238-240.
bucketForPercentileNoSkip(buckets, percentile) ==
    LET bucketCount == Len(buckets)
        obs == observationsByBucket(buckets)
        cumulative == cumulativeObservationsByBucket(obs)
        totalObservations == SumSeq(obs)
        prospectiveIndex == prospectiveIndexForPercentile(percentile, totalObservations)
        containing == {i \in 0..(bucketCount - 1) : cumulative[i + 1] >= prospectiveIndex}
    IN  IF containing = {} THEN Element(0, 0, "fallback")
        ELSE LET i == Min(containing)
                 subIndex == prospectiveIndex - previousCumulativeObservations(cumulative, i)
             IN  IF obs[i + 1] = subIndex
                 THEN nextNonEmptyBucketElement(i + 1, bucketCount, obs)
                 ELSE Element(i, subIndex, "found")

\* Lines 206-266: the element selected for a percentile, or the fallback of
\* line 265.
bucketForPercentile(buckets, percentile) ==
    LET bucketCount == Len(buckets)
        obs == observationsByBucket(buckets)
        cumulative == cumulativeObservationsByBucket(obs)
        totalObservations == SumSeq(obs)
        prospectiveIndex == prospectiveIndexForPercentile(percentile, totalObservations)
        containing == {i \in 0..(bucketCount - 1) :
                          /\ cumulative[i + 1] # 0
                          /\ cumulative[i + 1] >= prospectiveIndex}
    IN  IF containing = {} THEN Element(0, 0, "fallback")
        ELSE LET i == Min(containing)
                 subIndex == prospectiveIndex - previousCumulativeObservations(cumulative, i)
             IN  IF obs[i + 1] = subIndex
                 THEN nextNonEmptyBucketElement(i + 1, bucketCount, obs)
                 ELSE Element(i, subIndex, "found")

\* percentile: the value of the selected element.
percentile(buckets, p) ==
    LET e == bucketForPercentile(buckets, p)
    IN  ValueForIndex(buckets[e.bucket + 1], e.index)

(***************************************************************************)
(* AsMarshallable and String.                                              *)
(***************************************************************************)
\* formatFloat: the decimal string of a percentile with floatPrecision digits
\* after the point, held as the number of units of 10^-floatPrecision: the
\* quotient value * 10^floatPrecision / PctDen = value / PctGrid, rounded to
\* the nearest unit.
formatFloat(value) ==
    (2 * value + PctGrid) \div (2 * PctGrid)

\* Lines 294-298: the map from formatted percentile to estimate; a later
\* percentile overwrites an earlier one that formats alike.
intermediate(buckets, percentiles) ==
    [key \in {formatFloat(percentiles[i]) : i \in 1..Len(percentiles)} |->
        LET last == CHOOSE i \in 1..Len(percentiles) :
                        /\ formatFloat(percentiles[i]) = key
                        /\ \A j \in 1..Len(percentiles) :
                               formatFloat(percentiles[j]) = key => j <= i
        IN  percentile(buckets, percentiles[last])]

\* Lines 292-299: the entry of one series.
metricContainer(value, percentiles) ==
    [labels |-> value.labels, value |-> intermediate(value.buckets, percentiles)]

\* Does some percentile query of the snapshot reach the panic of line 196?
SnapshotPanics(vals, percentiles) ==
    \E s \in DOMAIN vals : \E i \in 1..Len(percentiles) :
        bucketForPercentile(vals[s].buckets, percentiles[i]).panicked

PanicResult == [kind |-> "panic", panicked |-> TRUE, value |-> <<>>]

\* The results AsMarshallable can return: the series appear in the order the
\* map iteration of line 291 yields them, which the language leaves open.
AsMarshallableResults(vals, percentiles) ==
    IF SnapshotPanics(vals, percentiles) THEN {PanicResult}
    ELSE {[kind |-> "histogram", panicked |-> FALSE,
           value |-> [i \in 1..Len(o) |-> metricContainer(vals[o[i]], percentiles)]] :
          o \in Orders(DOMAIN vals)}

\* The texts String can return, as the sequence of what is written.
StringResults(vals, starts) ==
    {[kind |-> "string", panicked |-> FALSE,
      value |-> [i \in 1..Len(o) |->
                   [labels |-> vals[o[i]].labels,
                    buckets |-> [j \in 1..Len(starts) |->
                                   <<starts[j], vals[o[i]].buckets[j]>>]]]] :
     o \in Orders(DOMAIN vals)}

\* An AsMarshallable that resets the buckets it has reported.
AsMarshallableResets(vals) ==
    [s \in DOMAIN vals |->
        [vals[s] EXCEPT !.buckets = [i \in 1..Len(@) |-> BucketReset(@[i])]]]

\* The values map after AsMarshallable / String have run: neither writes it.
AsMarshallableValues(vals) == vals
StringValues(vals) == vals

(***************************************************************************)
(* ResetAll.                                                               *)
(***************************************************************************)
\* A reset that drops the bucket array of the series instead of clearing its
\* buckets.
ResetBucketsTruncates(vals, signature) ==
    [vals EXCEPT ![signature].buckets = <<>>]

\* Lines 313-315: every bucket of one series is reset.
ResetBucketsOf(vals, signature) ==
    [vals EXCEPT ![signature].buckets =
        [i \in 1..Len(@) |-> BucketReset(@[i])]]

\* ResetAll without the delete of line 317.
DeleteNothing(vals, signature) == vals

\* Line 317: delete(h.values, signature).
DeleteSignature(vals, signature) ==
    [s \in DOMAIN vals \ {signature} |-> vals[s]]

(***************************************************************************)
(* sync.RWMutex: writer is the goroutine that holds or has announced the   *)
(* write lock, held says it holds it, readers counts the read locks.       *)
(***************************************************************************)
FreeMutex == [writer |-> NoThread, held |-> FALSE, readers |-> 0]

\* A write lock that does not wait for the readers; a read lock that does not
\* wait for the writer; an Unlock that is never run.
MayLockBesideReaders(m) == TRUE
MayRLockBesideWriter(m) == TRUE
UnlockForgotten(m) == m

\* Lock, first half: one writer at a time announces itself.
MayAnnounce(m) == m.writer = NoThread
\* Lock, second half: the announced writer waits for the readers to leave.
MayLock(m) == m.readers = 0
\* RLock: blocked while a writer holds or has announced the lock.
MayRLock(m) == m.writer = NoThread

Unlock(m) == [m EXCEPT !.writer = NoThread, !.held = FALSE]
RUnlock(m) == [m EXCEPT !.readers = @ - 1]

(***************************************************************************)
(* NewHistogram and the initial states.                                    *)
(***************************************************************************)
\* The bucketStarts a specification may carry: ascending, at least one start.
StartsChoices == UNION {AscendingSeqs(n, 1, MaxValue) : n \in 1..MaxBuckets}

\* The ReportablePercentiles a specification may carry.
PercentileChoices == {<<PctStep, PctDen>>, <<PctDen, PctDen>>}

\* The same, and a list of two percentiles that format alike.
ClosePercentileChoices == PercentileChoices \cup {<<PctMedian, PctBelowMedian>>}

TypeOK ==
    /\ bucketStarts \in StartsChoices
    /\ reportablePercentiles \in PercentileChoices
    /\ DOMAIN values \subseteq Signatures
    /\ mutex.writer \in Threads \cup {NoThread}
    /\ mutex.held \in BOOLEAN
    /\ mutex.readers \in 0..NumThreads

\* NewHistogram: the fields of the specification, and an empty values map.
NewHistogram(starts, percentiles) ==
    /\ bucketMaker = "BucketBuilder"
    /\ bucketStarts = starts
    /\ reportablePercentiles = percentiles
    /\ values = EmptyMap
    /\ mutex = FreeMutex

Init ==
    /\ \E starts \in {<<1>>, <<1, 2>>} : NewHistogram(starts, <<PctStep, PctDen>>)
    /\ pc = [t \in Threads |-> "idle"]
    /\ args = [t \in Threads |-> NoArgs]
    /\ histogram = [t \in Threads |-> NoSignature]
    /\ remaining = [t \in Threads |-> {}]
    /\ result = [t \in Threads |-> NoResult]
    /\ lin = EmptyMap
    /\ addCalls = [s \in Signatures |-> 0]
    /\ lastSnapshot = NoResult
    /\ made = [t \in Threads |-> 0]

\* The samples the histogram holds.
TotalObservations(vals) ==
    SumSeq([i \in 1..Cardinality(DOMAIN vals) |->
              LET s == (CHOOSE o \in Orders(DOMAIN vals) : TRUE)[i]
              IN  SumSeq(observationsByBucket(vals[s].buckets))])

\* Adds that have been called and have not yet forwarded their sample.
AddsInFlight == {t \in Threads : pc[t] \in {"AddLock", "AddWait", "AddLookup", "AddRoute"}}

(***************************************************************************)
(* Add(labels, value).  Its arguments are drawn when it gets the lock:     *)
(* nothing reads them before.                                              *)
(***************************************************************************)
CallAdd(t) ==
    /\ pc[t] = "idle"
    /\ TotalObservations(values) + Cardinality(AddsInFlight) < MaxObservations
    /\ pc' = [pc EXCEPT ![t] = "AddLock"]
    /\ UNCHANGED <<config, made, values, mutex, args, histogram, remaining, result, lin, addCalls,
                   lastSnapshot>>

\* h.mutex.Lock(), first half, of Add and of ResetAll.
LockAnnounce(t) ==
    /\ pc[t] \in {"AddLock", "ResetLock"}
    /\ MayAnnounce(mutex)
    /\ mutex' = [mutex EXCEPT !.writer = t]
    /\ pc' = [pc EXCEPT ![t] = IF pc[t] = "AddLock" THEN "AddWait" ELSE "ResetWait"]
    /\ UNCHANGED <<config, made, values, args, histogram, remaining, result, lin, addCalls,
                   lastSnapshot>>

\* Line 108: Add holds the write lock; its arguments are among the given ones.
AddLockedWith(t, labelInputs, samples) ==
    /\ pc[t] = "AddWait"
    /\ MayLock(mutex)
    /\ mutex' = [mutex EXCEPT !.held = TRUE]
    /\ \E labels \in labelInputs, value \in samples :
           /\ args' = [args EXCEPT ![t] = [labels |-> labels, value |-> value]]
           /\ lin' = AddWhole(lin, bucketStarts, labels, value)
           /\ addCalls' = [addCalls EXCEPT ![LabelsToSignature(labels)] = @ + 1]
    /\ pc' = [pc EXCEPT ![t] = "AddLookup"]
    /\ lastSnapshot' = NoResult
    /\ UNCHANGED <<config, made, values, histogram, remaining, result>>

AddLocked(t) == AddLockedWith(t, LabelInputs, ConcurrentSamples)

\* Lines 111-129: find the series of the signature, or create and store it.
AddFind(t) ==
    /\ pc[t] = "AddLookup"
    /\ LET signature == LabelsToSignature(args[t].labels)
       IN  /\ values' = AddLookup(values, bucketStarts, args[t].labels)
           /\ histogram' = [histogram EXCEPT ![t] = signature]
           /\ made' = [made EXCEPT ![t] = BucketsMade(values, bucketStarts, args[t].labels)]
    /\ pc' = [pc EXCEPT ![t] = "AddRoute"]
    /\ lastSnapshot' = NoResult
    /\ UNCHANGED <<config, mutex, args, remaining, result, lin, addCalls>>

\* Lines 131-141: route the value and forward it to its bucket.
AddRoute(t) ==
    /\ pc[t] = "AddRoute"
    /\ values' = AddForward(values, bucketStarts, histogram[t], args[t].value)
    /\ pc' = [pc EXCEPT ![t] = "AddUnlock"]
    /\ lastSnapshot' = NoResult
    /\ UNCHANGED <<config, made, mutex, args, histogram, remaining, result, lin, addCalls>>

\* Line 109: the deferred Unlock; Add returns.
AddUnlock(t) ==
    /\ pc[t] = "AddUnlock"
    /\ mutex' = Unlock(mutex)
    /\ pc' = [pc EXCEPT ![t] = "idle"]
    /\ args' = [args EXCEPT ![t] = NoArgs]
    /\ histogram' = [histogram EXCEPT ![t] = NoSignature]
    /\ made' = [made EXCEPT ![t] = 0]
    /\ UNCHANGED <<config, values, remaining, result, lin, addCalls, lastSnapshot>>

(***************************************************************************)
(* ResetAll().                                                             *)
(***************************************************************************)
CallResetAll(t) ==
    /\ pc[t] = "idle"
    /\ pc' = [pc EXCEPT ![t] = "ResetLock"]
    /\ UNCHANGED <<config, made, values, mutex, args, histogram, remaining, result, lin, addCalls,
                   lastSnapshot>>

\* Lines 309 and 312: ResetAll holds the write lock; the loop is to visit the
\* series the map holds.
ResetLocked(t) ==
    /\ pc[t] = "ResetWait"
    /\ MayLock(mutex)
    /\ mutex' = [mutex EXCEPT !.held = TRUE]
    /\ remaining' = [remaining EXCEPT ![t] = DOMAIN values]
    /\ lin' = ResetAllWhole(lin)
    /\ addCalls' = [s \in Signatures |-> 0]
    /\ pc' = [pc EXCEPT ![t] = "ResetLoop"]
    /\ lastSnapshot' = NoResult
    /\ UNCHANGED <<config, made, values, args, histogram, result>>

\* Lines 312-315: the loop takes a series it has not visited, in any order, and
\* resets its buckets.  A series deleted meanwhile is not visited.
ResetBuckets(t) ==
    /\ pc[t] = "ResetLoop"
    /\ \E signature \in remaining[t] \cap DOMAIN values :
           /\ values' = ResetBucketsOf(values, signature)
           /\ histogram' = [histogram EXCEPT ![t] = signature]
           /\ remaining' = [remaining EXCEPT ![t] = @ \ {signature}]
    /\ pc' = [pc EXCEPT ![t] = "ResetDelete"]
    /\ lastSnapshot' = NoResult
    /\ UNCHANGED <<config, made, mutex, args, result, lin, addCalls>>

\* Line 317: the series is deleted from the map.
ResetDelete(t) ==
    /\ pc[t] = "ResetDelete"
    /\ values' = DeleteSignature(values, histogram[t])
    /\ pc' = [pc EXCEPT ![t] = "ResetLoop"]
    /\ lastSnapshot' = NoResult
    /\ UNCHANGED <<config, made, mutex, args, histogram, remaining, result, lin, addCalls>>

\* The loop has visited every series.
ResetDone(t) ==
    /\ pc[t] = "ResetLoop"
    /\ remaining[t] \cap DOMAIN values = {}
    /\ pc' = [pc EXCEPT ![t] = "ResetUnlock"]
    /\ UNCHANGED <<config, made, values, mutex, args, histogram, remaining, result, lin,
                   addCalls, lastSnapshot>>

\* Line 310: the deferred Unlock; ResetAll returns.
ResetUnlock(t) ==
    /\ pc[t] = "ResetUnlock"
    /\ mutex' = Unlock(mutex)
    /\ pc' = [pc EXCEPT ![t] = "idle"]
    /\ histogram' = [histogram EXCEPT ![t] = NoSignature]
    /\ remaining' = [remaining EXCEPT ![t] = {}]
    /\ UNCHANGED <<config, made, values, args, result, lin, addCalls, lastSnapshot>>

(***************************************************************************)
(* AsMarshallable() and String().                                          *)
(***************************************************************************)
CallAsMarshallable(t) ==
    /\ pc[t] = "idle"
    /\ pc' = [pc EXCEPT ![t] = "MarshalRLock"]
    /\ UNCHANGED <<config, made, values, mutex, args, histogram, remaining, result, lin, addCalls,
                   lastSnapshot>>

CallString(t) ==
    /\ pc[t] = "idle"
    /\ pc' = [pc EXCEPT ![t] = "StringRLock"]
    /\ UNCHANGED <<config, made, values, mutex, args, histogram, remaining, result, lin, addCalls,
                   lastSnapshot>>

\* Lines 145 and 284: h.mutex.RLock().
RLocked(t) ==
    /\ pc[t] \in {"MarshalRLock", "StringRLock"}
    /\ MayRLock(mutex)
    /\ mutex' = [mutex EXCEPT !.readers = @ + 1]
    /\ pc' = [pc EXCEPT ![t] = IF pc[t] = "MarshalRLock" THEN "MarshalBody"
                               ELSE "StringBody"]
    /\ UNCHANGED <<config, made, values, args, histogram, remaining, result, lin, addCalls,
                   lastSnapshot>>

\* Lines 287-305: the snapshot is built.
MarshalBody(t) ==
    /\ pc[t] = "MarshalBody"
    /\ \E r \in AsMarshallableResults(values, reportablePercentiles) :
           /\ result' = [result EXCEPT ![t] = r]
           /\ lastSnapshot' = r
    /\ values' = AsMarshallableValues(values)
    /\ pc' = [pc EXCEPT ![t] = "MarshalRUnlock"]
    /\ UNCHANGED <<config, made, mutex, args, histogram, remaining, lin, addCalls>>

\* Lines 148-161: the text is built.
StringBody(t) ==
    /\ pc[t] = "StringBody"
    /\ \E r \in StringResults(values, bucketStarts) :
           result' = [result EXCEPT ![t] = r]
    /\ values' = StringValues(values)
    /\ pc' = [pc EXCEPT ![t] = "StringRUnlock"]
    /\ UNCHANGED <<config, made, mutex, args, histogram, remaining, lin, addCalls, lastSnapshot>>

\* Lines 146 and 285: the deferred RUnlock; the call returns its result.
RUnlocked(t) ==
    /\ pc[t] \in {"MarshalRUnlock", "StringRUnlock"}
    /\ mutex' = RUnlock(mutex)
    /\ pc' = [pc EXCEPT ![t] = "idle"]
    /\ result' = [result EXCEPT ![t] = NoResult]
    /\ UNCHANGED <<config, made, values, args, histogram, remaining, lin, addCalls, lastSnapshot>>

(***************************************************************************)
(* The concurrent specification: any goroutine takes any step.             *)
(***************************************************************************)
Next ==
    \E t \in Threads :
        \/ CallAdd(t)
        \/ LockAnnounce(t)
        \/ AddLocked(t)
        \/ AddFind(t)
        \/ AddRoute(t)
        \/ AddUnlock(t)
        \/ CallResetAll(t)
        \/ ResetLocked(t)
        \/ ResetBuckets(t)
        \/ ResetDelete(t)
        \/ ResetDone(t)
        \/ ResetUnlock(t)
        \/ CallAsMarshallable(t)
        \/ CallString(t)
        \/ RLocked(t)
        \/ MarshalBody(t)
        \/ StringBody(t)
        \/ RUnlocked(t)

Spec == Init /\ [][Next]_vars

(***************************************************************************)
(* The fair specification: the concurrent one with one sample value (no    *)
(* step waits on the value of a sample), under fair scheduling: a          *)
(* goroutine that can run does run, an announced writer gets the lock once *)
(* the readers have left, and a goroutine that waits for the lock gets it  *)
(* if the lock comes free again and again.  Nothing obliges a goroutine to *)
(* start a call.                                                           *)
(***************************************************************************)
AddLockedFair(t) == AddLockedWith(t, {NilLabels}, {0})

\* The steps of a call between its start and its return.
Acquire(t) == LockAnnounce(t) \/ RLocked(t)

Work(t) ==
    \/ AddLockedFair(t) \/ AddFind(t) \/ AddRoute(t) \/ AddUnlock(t)
    \/ ResetLocked(t)
    \/ ResetBuckets(t) \/ ResetDelete(t) \/ ResetDone(t) \/ ResetUnlock(t)
    \/ MarshalBody(t) \/ StringBody(t) \/ RUnlocked(t)

InitFair ==
    /\ NewHistogram(<<1>>, <<PctDen>>)
    /\ pc = [t \in Threads |-> "idle"]
    /\ args = [t \in Threads |-> NoArgs]
    /\ histogram = [t \in Threads |-> NoSignature]
    /\ remaining = [t \in Threads |-> {}]
    /\ result = [t \in Threads |-> NoResult]
    /\ lin = EmptyMap
    /\ addCalls = [s \in Signatures |-> 0]
    /\ lastSnapshot = NoResult
    /\ made = [t \in Threads |-> 0]

NextFair ==
    \E t \in Threads :
        \/ CallAdd(t)
        \/ CallResetAll(t)
        \/ CallAsMarshallable(t)
        \/ CallString(t)
        \/ Acquire(t)
        \/ Work(t)

FairSpec ==
    /\ InitFair
    /\ [][NextFair]_vars
    /\ \A t \in Threads : WF_vars(Work(t)) /\ SF_vars(Acquire(t))

(***************************************************************************)
(* The sequential specification: one goroutine, for any bucket starts.     *)
(* Its Adds run whole, one after the other, all for the signature of the   *)
(* empty label set; its AsMarshallable and String run as above.            *)
(***************************************************************************)
Caller == 1

\* Lines 107-142: Add(labels, value) from call to return, with no other
\* goroutine around.
SeqAdd ==
    /\ pc[Caller] = "idle"
    /\ TotalObservations(values) < MaxSamples
    /\ \E labels \in {NilLabels, EmptyLabels}, value \in Samples :
           LET signature == LabelsToSignature(labels)
           IN  /\ values' = AddWhole(values, bucketStarts, labels, value)
               /\ lin' = AddWhole(lin, bucketStarts, labels, value)
               /\ addCalls' = [addCalls EXCEPT ![signature] =
                                  IF signature \in DOMAIN values THEN @ + 1 ELSE 1]
    /\ lastSnapshot' = NoResult
    /\ UNCHANGED <<config, made, mutex, pc, args, histogram, remaining, result>>

InitSeq ==
    /\ \E starts \in StartsChoices, percentiles \in PercentileChoices :
           NewHistogram(starts, percentiles)
    /\ pc = [t \in Threads |-> "idle"]
    /\ args = [t \in Threads |-> NoArgs]
    /\ histogram = [t \in Threads |-> NoSignature]
    /\ remaining = [t \in Threads |-> {}]
    /\ result = [t \in Threads |-> NoResult]
    /\ lin = EmptyMap
    /\ addCalls = [s \in Signatures |-> 0]
    /\ lastSnapshot = NoResult
    /\ made = [t \in Threads |-> 0]

NextSeq ==
    \/ SeqAdd
    \/ CallAsMarshallable(Caller)
    \/ CallString(Caller)
    \/ RLocked(Caller)
    \/ MarshalBody(Caller)
    \/ StringBody(Caller)
    \/ RUnlocked(Caller)

SpecSeq == InitSeq /\ [][NextSeq]_vars

(***************************************************************************)
(* The bucket-start generators, lines 20-52.  Their float64 arguments and  *)
(* results are exact rationals here: a number is a record [num, den] with  *)
(* den > 0, computed as the code computes it and compared by value.        *)
(***************************************************************************)
MaxLower == 2
MaxUpper == 10
MaxCount == 5

Rat(n, d) == [num |-> n, den |-> d]

RatOf(n) == Rat(n, 1)

RatAdd(a, b) == Rat(a.num * b.den + b.num * a.den, a.den * b.den)

RatMul(a, b) == Rat(a.num * b.num, a.den * b.den)

RatEq(a, b) == a.num * b.den = b.num * a.den

RatLess(a, b) == a.num * b.den < b.num * a.den

RECURSIVE Pow2(_)
\* math.Pow(2, n) for a natural n.
Pow2(n) == IF n = 0 THEN 1 ELSE 2 * Pow2(n - 1)

\* int(math.Ceil(math.Log2(upper))) for upper >= 1: the least n with
\* 2^n >= upper.
CeilLog2(upper) == CHOOSE n \in 0..upper : Pow2(n) >= upper /\ \A k \in 0..(n - 1) : Pow2(k) < upper

\* Lines 25-36 with the multiplier one ahead (m := float64(i + 1)).
EquallySizedFromSecond(lower, upper, count) ==
    LET partitionSize == Rat(upper - lower, count)
    IN  [i \in 1..count |-> RatAdd(RatOf(lower), RatMul(RatOf(i), partitionSize))]

\* Lines 25-36: buckets[i] = lower + float64(i) * partitionSize for the Go
\* indices 0..count-1, which are the positions 1..count here.
EquallySizedBucketsFor(lower, upper, count) ==
    LET partitionSize == Rat(upper - lower, count)
    IN  [i \in 1..count |-> RatAdd(RatOf(lower), RatMul(RatOf(i - 1), partitionSize))]

\* Lines 42-52 with the count of line 43 rounded down.
LogarithmicSizedRoundedDown(lower, upper) ==
    LET bucketCount == CHOOSE n \in 0..upper : Pow2(n) <= upper /\ Pow2(n + 1) > upper
    IN  [i \in 1..bucketCount |-> IF i = 1 THEN 0 ELSE Pow2(i - 1)]

\* Lines 42-52: the loop starts with j = 0.0 and its post statement sets
\* j to math.Pow(2, i + 1) for the i before the increment, so buckets[0] = 0
\* and buckets[i] = 2^i for the Go indices i >= 1.  lower is not read.
LogarithmicSizedBucketsFor(lower, upper) ==
    LET bucketCount == CeilLog2(upper)
    IN  [i \in 1..bucketCount |-> IF i = 1 THEN 0 ELSE Pow2(i - 1)]

Lowers == (0 - MaxLower)..MaxLower

GeneratorArgs(fn, lower, upper, count) ==
    [fn |-> fn, lower |-> lower, upper |-> upper, count |-> count]

\* A call of LogarithmicSizedBucketsFor(lower, upper) with upper > 1, as a
\* program building its HistogramSpecification makes it.
CallLogarithmicSizedBucketsFor ==
    /\ pc[Caller] = "idle"
    /\ \E lower \in Lowers, upper \in 2..MaxUpper :
           /\ args' = [args EXCEPT ![Caller] =
                          GeneratorArgs("LogarithmicSizedBucketsFor", lower, upper, 0)]
           /\ result' = [result EXCEPT ![Caller] =
                            [kind |-> "starts", panicked |-> FALSE,
                             value |-> LogarithmicSizedBucketsFor(lower, upper)]]
    /\ pc' = [pc EXCEPT ![Caller] = "generated"]
    /\ UNCHANGED <<config, made, values, mutex, histogram, remaining, lin, addCalls,
                   lastSnapshot>>

\* A call of EquallySizedBucketsFor(lower, upper, count) with lower < upper
\* and count >= 1.
CallEquallySizedBucketsFor ==
    /\ pc[Caller] = "idle"
    /\ \E lower \in Lowers, upper \in Lowers \cup (1..MaxUpper), count \in 1..MaxCount :
           /\ lower < upper
           /\ args' = [args EXCEPT ![Caller] =
                          GeneratorArgs("EquallySizedBucketsFor", lower, upper, count)]
           /\ result' = [result EXCEPT ![Caller] =
                            [kind |-> "starts", panicked |-> FALSE,
                             value |-> EquallySizedBucketsFor(lower, upper, count)]]
    /\ pc' = [pc EXCEPT ![Caller] = "generated"]
    /\ UNCHANGED <<config, made, values, mutex, histogram, remaining, lin, addCalls,
                   lastSnapshot>>

\* The generator's caller has used the result.
GeneratorReturn ==
    /\ pc[Caller] = "generated"
    /\ pc' = [pc EXCEPT ![Caller] = "idle"]
    /\ args' = [args EXCEPT ![Caller] = NoArgs]
    /\ result' = [result EXCEPT ![Caller] = NoResult]
    /\ UNCHANGED <<config, made, values, mutex, histogram, remaining, lin, addCalls,
                   lastSnapshot>>

InitGen ==
    /\ NewHistogram(<<1>>, <<PctDen>>)
    /\ pc = [t \in Threads |-> "idle"]
    /\ args = [t \in Threads |-> NoArgs]
    /\ histogram = [t \in Threads |-> NoSignature]
    /\ remaining = [t \in Threads |-> {}]
    /\ result = [t \in Threads |-> NoResult]
    /\ lin = EmptyMap
    /\ addCalls = [s \in Signatures |-> 0]
    /\ lastSnapshot = NoResult
    /\ made = [t \in Threads |-> 0]

NextGen ==
    \/ CallLogarithmicSizedBucketsFor
    \/ CallEquallySizedBucketsFor
    \/ GeneratorReturn

SpecGen == InitGen /\ [][NextGen]_vars

(***************************************************************************)
(* Queries on any count vector.  bucketForPercentile reads a series only   *)
(* through Observations, and a Bucket may evict what it was given (the     *)
(* comment of lines 199-205): the series queried here holds any number of  *)
(* samples 0..MaxBucketCount in each of its buckets.                       *)
(***************************************************************************)
MaxBucketCount == 2

\* A bucket array of a series whose i-th bucket still holds counts[i]
\* samples, each equal to the bucket's start.
BucketsWithCounts(starts, counts) ==
    [i \in 1..Len(starts) |-> [j \in 1..counts[i] |-> starts[i]]]

InitQuery ==
    /\ \E n \in 1..(MaxBuckets + 2) :
           LET starts == [i \in 1..n |-> i]
           IN  /\ bucketMaker = "BucketBuilder"
               /\ bucketStarts = starts
               /\ reportablePercentiles = <<PctMedian, PctDen>>
               /\ mutex = FreeMutex
               /\ \E counts \in [1..n -> 0..MaxBucketCount] :
                      values = [s \in {LabelsToSignature(NilLabels)} |->
                                   [buckets |-> BucketsWithCounts(starts, counts),
                                    labels |-> NilLabels.pairs]]
    /\ pc = [t \in Threads |-> "idle"]
    /\ args = [t \in Threads |-> NoArgs]
    /\ histogram = [t \in Threads |-> NoSignature]
    /\ remaining = [t \in Threads |-> {}]
    /\ result = [t \in Threads |-> NoResult]
    /\ lin = values
    /\ addCalls = [s \in Signatures |-> 0]
    /\ lastSnapshot = NoResult
    /\ made = [t \in Threads |-> 0]

\* Lines 206-266: bucketForPercentile(signature, percentile) from call to
\* return or panic.
CallBucketForPercentile ==
    /\ pc[Caller] = "idle"
    /\ \E signature \in DOMAIN values, p \in Percentiles :
           /\ histogram' = [histogram EXCEPT ![Caller] = signature]
           /\ args' = [args EXCEPT ![Caller] = [percentile |-> p]]
           /\ LET e == bucketForPercentile(values[signature].buckets, p)
              IN  result' = [result EXCEPT ![Caller] =
                                [kind |-> "element", panicked |-> e.panicked, value |-> e]]
    /\ pc' = [pc EXCEPT ![Caller] = "queried"]
    /\ UNCHANGED <<config, made, values, mutex, remaining, lin, addCalls, lastSnapshot>>

\* The caller of bucketForPercentile has used the element.
QueryReturn ==
    /\ pc[Caller] = "queried"
    /\ pc' = [pc EXCEPT ![Caller] = "idle"]
    /\ histogram' = [histogram EXCEPT ![Caller] = NoSignature]
    /\ args' = [args EXCEPT ![Caller] = NoArgs]
    /\ result' = [result EXCEPT ![Caller] = NoResult]
    /\ UNCHANGED <<config, made, values, mutex, remaining, lin, addCalls, lastSnapshot>>

NextQuery ==
    \/ CallBucketForPercentile
    \/ QueryReturn

SpecQuery == InitQuery /\ [][NextQuery]_vars

(***************************************************************************)
(* The snapshot specification: one goroutine, any labels, any of the       *)
(* percentile lists; Add and ResetAll run whole and AsMarshallable runs as *)
(* in the concurrent specification.                                        *)
(***************************************************************************)
MaxSnapshotSamples == 4

\* Lines 107-142: Add(labels, value) from call to return.
SnapAdd ==
    /\ pc[Caller] = "idle"
    /\ TotalObservations(values) < MaxSnapshotSamples
    /\ \E labels \in LabelInputs, value \in ConcurrentSamples :
           LET signature == LabelsToSignature(labels)
           IN  /\ values' = AddWhole(values, bucketStarts, labels, value)
               /\ lin' = AddWhole(lin, bucketStarts, labels, value)
               /\ addCalls' = [addCalls EXCEPT ![signature] =
                                  IF signature \in DOMAIN values THEN @ + 1 ELSE 1]
    /\ lastSnapshot' = NoResult
    /\ UNCHANGED <<config, made, mutex, pc, args, histogram, remaining, result>>

\* Lines 308-319: ResetAll() from call to return.
SnapResetAll ==
    /\ pc[Caller] = "idle"
    /\ values # EmptyMap
    /\ values' = ResetAllWhole(values)
    /\ lin' = ResetAllWhole(lin)
    /\ addCalls' = [s \in Signatures |-> 0]
    /\ lastSnapshot' = NoResult
    /\ UNCHANGED <<config, made, mutex, pc, args, histogram, remaining, result>>

InitSnap ==
    /\ \E starts \in {<<1>>, <<1, 2>>}, percentiles \in ClosePercentileChoices :
           NewHistogram(starts, percentiles)
    /\ pc = [t \in Threads |-> "idle"]
    /\ args = [t \in Threads |-> NoArgs]
    /\ histogram = [t \in Threads |-> NoSignature]
    /\ remaining = [t \in Threads |-> {}]
    /\ result = [t \in Threads |-> NoResult]
    /\ lin = EmptyMap
    /\ addCalls = [s \in Signatures |-> 0]
    /\ lastSnapshot = NoResult
    /\ made = [t \in Threads |-> 0]

NextSnap ==
    \/ SnapAdd
    \/ SnapResetAll
    \/ CallAsMarshallable(Caller)
    \/ RLocked(Caller)
    \/ MarshalBody(Caller)
    \/ RUnlocked(Caller)

SpecSnap == InitSnap /\ [][NextSnap]_vars

(***************************************************************************)
(* Properties.                                                             *)
(***************************************************************************)
\* The samples a series holds.
SeriesTotal(value) == SumSeq(observationsByBucket(value.buckets))

\* C1: for every tracked series, the counts of its buckets add up to the
\* number of Add calls made for its signature (no ResetAll in between).
C1_CountsSumToAdds ==
    \A s \in DOMAIN values : SeriesTotal(values[s]) = addCalls[s]

\* C1 witness: several Adds for one signature, spread over two buckets.
C1_Witness ==
    \E s \in DOMAIN values :
        /\ addCalls[s] >= 3
        /\ \E i, j \in 1..Len(values[s].buckets) :
               i # j /\ values[s].buckets[i] # <<>> /\ values[s].buckets[j] # <<>>

\* The bucket index (from 0) the routing rule gives value v.
RoutedAsClaimed(starts, v, i) ==
    LET N == Len(starts)
    IN  /\ \A j \in 1..N : v = starts[j] => i = j - 1
        /\ \A j \in 1..(N - 1) : (starts[j] < v /\ v < starts[j + 1]) => i = j - 1
        /\ v >= starts[N] => i = N - 1
        /\ v < starts[1] => i = 0

\* C2: every sample Add has forwarded sits in the one bucket the routing rule
\* names: index i for a value equal to boundaries[i] or strictly between
\* boundaries[i] and boundaries[i+1], N-1 at or above boundaries[N-1], 0 below
\* boundaries[0]; and it sits in no other bucket.
C2_BoundaryRouting ==
    /\ \A v \in Samples : RoutedAsClaimed(bucketStarts, v, lastIndex(bucketStarts, v))
    /\ \A s \in DOMAIN values :
           /\ Len(values[s].buckets) = Len(bucketStarts)
           /\ SeriesTotal(values[s]) = addCalls[s]
           /\ \A b \in 1..Len(values[s].buckets) :
                  \A k \in 1..Len(values[s].buckets[b]) :
                      RoutedAsClaimed(bucketStarts, values[s].buckets[b][k], b - 1)

\* C2 witness: a sample equal to a start beyond the first sits in that start's
\* bucket, and a sample below the first start sits in bucket 0.
C2_Witness ==
    \E s \in DOMAIN values :
        /\ Len(bucketStarts) >= 2
        /\ \E k \in 1..Len(values[s].buckets[2]) :
               values[s].buckets[2][k] = bucketStarts[2]
        /\ \E k \in 1..Len(values[s].buckets[1]) :
               values[s].buckets[1][k] < bucketStarts[1]

\* The element of rank floor(p * (total - 1)) of the concatenated buckets is
\* element e.
HasRank(buckets, p, e) ==
    LET obs == observationsByBucket(buckets)
    IN  /\ ~e.panicked
        /\ e.bucket \in 0..(Len(buckets) - 1)
        /\ 0 <= e.index
        /\ e.index < obs[e.bucket + 1]
        /\ SumSeq(SubSeq(obs, 1, e.bucket)) + e.index
               = (p * (SumSeq(obs) - 1)) \div PctDen

\* The series of the example: boundaries [0, 10, 20], five 3s and five 25s.
ExampleBuckets == <<(<<3, 3, 3, 3, 3>>), <<>>, (<<25, 25, 25, 25, 25>>)>>

\* C3: for every series holding at least one sample and every percentile,
\* bucketForPercentile selects the element of rank floor(p * (total - 1)): a
\* bucket b and an index s with 0 <= s < count(b) and count before b + s equal
\* to that rank.  In the example, 0.5 selects bucket 0 index 4 and 1.0 selects
\* bucket 2 index 4.
C3_SelectsRank ==
    /\ \A s \in DOMAIN values :
           SeriesTotal(values[s]) >= 1 =>
               \A p \in Percentiles :
                   HasRank(values[s].buckets, p,
                           bucketForPercentile(values[s].buckets, p))
    /\ bucketForPercentile(ExampleBuckets, PctMedian) = Element(0, 4, "found")
    /\ bucketForPercentile(ExampleBuckets, PctDen) = Element(2, 4, "found")

\* C3 witness: a series with an empty bucket between two that hold samples, and
\* a percentile whose rank is the first sample after the gap.
C3_Witness ==
    \E s \in DOMAIN values :
        /\ Len(values[s].buckets) = 3
        /\ values[s].buckets[1] # <<>>
        /\ values[s].buckets[2] = <<>>
        /\ values[s].buckets[3] # <<>>
        /\ \E p \in Percentiles :
               bucketForPercentile(values[s].buckets, p) = Element(2, 0, "next")

\* C4: for a series built by Add, percentile(p1) <= percentile(p2) whenever
\* p1 <= p2.
C4_PercentileMonotone ==
    \A s \in DOMAIN values :
        SeriesTotal(values[s]) >= 1 =>
            LET estimate == [p \in Percentiles |-> percentile(values[s].buckets, p)]
            IN  \A p1, p2 \in Percentiles : p1 <= p2 => estimate[p1] <= estimate[p2]

\* C4 witness: a series over two buckets where a larger percentile gives a
\* larger estimate, taken from a later bucket.
C4_Witness ==
    \E s \in DOMAIN values :
        \E p1, p2 \in Percentiles :
            /\ p1 < p2
            /\ percentile(values[s].buckets, p1) < percentile(values[s].buckets, p2)
            /\ bucketForPercentile(values[s].buckets, p1).bucket
                   < bucketForPercentile(values[s].buckets, p2).bucket

\* Where a goroutine holds the write lock, and where it holds a read lock.
InWrite(t) ==
    pc[t] \in {"AddLookup", "AddRoute", "AddUnlock",
               "ResetLoop", "ResetDelete", "ResetUnlock"}
InRead(t) == pc[t] \in {"MarshalBody", "MarshalRUnlock", "StringBody", "StringRUnlock"}

\* The snapshot of a histogram that tracks no series.
NoSeries == [kind |-> "histogram", panicked |-> FALSE, value |-> <<>>]

\* The series Add leaves when it has created it: the one sample in its
\* bucket, every other bucket empty.
OneSample(labels, value) ==
    [buckets |-> [i \in 1..Len(bucketStarts) |->
                    IF i = lastIndex(bucketStarts, value) + 1 THEN <<value>> ELSE <<>>],
     labels |-> labels.pairs]

\* C5: when ResetAll is about to return the histogram tracks no series and its
\* snapshot reports none; each series had all its buckets cleared when it was
\* removed; the boundaries, the bucket factory and the percentile list never
\* change; and an Add that finds no series of its signature (as every Add after
\* a ResetAll does) leaves a series holding exactly its one sample.
C5_ResetAll ==
    /\ [](\A t \in Threads :
              pc[t] = "ResetUnlock" =>
                  /\ DOMAIN values = {}
                  /\ AsMarshallableResults(values, reportablePercentiles) = {NoSeries})
    /\ [][\A t \in Threads :
              (pc[t] = "ResetDelete" /\ pc'[t] = "ResetLoop") =>
                  /\ histogram[t] \notin DOMAIN values'
                  /\ \A i \in 1..Len(values[histogram[t]].buckets) :
                         values[histogram[t]].buckets[i] = <<>>]_vars
    /\ [][config' = config]_vars
    /\ [][\A t \in Threads :
              (pc[t] = "AddRoute" /\ pc'[t] = "AddUnlock" /\ addCalls[histogram[t]] = 1) =>
                  /\ histogram[t] \in DOMAIN values'
                  /\ values'[histogram[t]] = OneSample(args[t].labels, args[t].value)]_vars

\* C5 witness: ResetAll is about to return after it has removed series.
C5_Witness ==
    \E t \in Threads :
        /\ pc[t] = "ResetUnlock"
        /\ histogram[t] # NoSignature
        /\ DOMAIN lin = {}

\* C6: a goroutine inside Add or ResetAll excludes every other goroutine from
\* Add, ResetAll, AsMarshallable and String; only readers are inside together.
C6_MutualExclusion ==
    \A t, u \in Threads :
        (t # u /\ InWrite(t)) => (~InWrite(u) /\ ~InRead(u))

\* C6 witness: AsMarshallable and String inside their read locks together.
C6_Witness ==
    \E t, u \in Threads : pc[t] = "MarshalBody" /\ pc[u] = "StringBody"

\* C7: while a reader holds its lock the map is the one made by the writes
\* that got the lock before it, each applied whole: every tracked series has
\* all its buckets and at least the sample of the Add that created it; and the
\* snapshot it has built is a snapshot of that map.
C7_NoPartialRead ==
    \A t \in Threads :
        /\ InRead(t) =>
               /\ values = lin
               /\ \A s \in DOMAIN values :
                      /\ Len(values[s].buckets) = Len(bucketStarts)
                      /\ SeriesTotal(values[s]) >= 1
        /\ pc[t] = "MarshalRUnlock" =>
               result[t] \in AsMarshallableResults(lin, reportablePercentiles)

\* C7 witness: a snapshot of a tracked series has been built while a writer
\* waits for the reader to leave.
C7_Witness ==
    \E t, u \in Threads :
        /\ pc[t] = "MarshalRUnlock"
        /\ result[t].value # <<>>
        /\ pc[u] \in {"AddWait", "ResetWait"}

\* C8: whenever a call is in progress some goroutine can take a step of a call
\* in progress, and under fair scheduling every call that has started returns.
C8_NoDeadlock ==
    /\ []((\E t \in Threads : pc[t] # "idle") =>
              (\E t \in Threads : ENABLED (Acquire(t) \/ Work(t))))
    /\ \A t \in Threads : (pc[t] # "idle") ~> (pc[t] = "idle")

\* C8 witness: one goroutine waits for the lock another holds.
C8_Witness ==
    \E t, u \in Threads :
        /\ pc[t] \in {"MarshalRLock", "StringRLock", "AddLock", "ResetLock"}
        /\ InWrite(u)
        /\ ~ENABLED Acquire(t)

\* A step of an AsMarshallable or String call of goroutine t.
ReaderStep(t) ==
    /\ pc'[t] # pc[t]
    /\ \/ pc[t] \in {"MarshalRLock", "MarshalBody", "MarshalRUnlock",
                     "StringRLock", "StringBody", "StringRUnlock"}
       \/ pc'[t] \in {"MarshalRLock", "StringRLock"}

\* C9: no step of AsMarshallable or String changes the map, a series' labels,
\* a bucket, or the configuration.
C9_ReadsDoNotMutate ==
    [][(\E t \in Threads : ReaderStep(t)) => (values' = values /\ config' = config)]_vars

\* C9 witness: a snapshot and a text have been built of a histogram that
\* tracks a series.
C9_Witness ==
    \E t, u \in Threads :
        /\ pc[t] = "MarshalRUnlock"
        /\ pc[u] = "StringRUnlock"
        /\ DOMAIN values # {}

\* Two snapshots with the same entries, in whatever order.
SameEntries(r1, r2) ==
    /\ r1.kind = r2.kind
    /\ r1.panicked = r2.panicked
    /\ Len(r1.value) = Len(r2.value)
    /\ {r1.value[i] : i \in 1..Len(r1.value)} = {r2.value[i] : i \in 1..Len(r2.value)}

\* A goroutine builds a snapshot, none of Add and ResetAll having had the lock
\* since the snapshot before it.
SecondSnapshot(t) ==
    /\ pc[t] = "MarshalBody"
    /\ pc'[t] = "MarshalRUnlock"
    /\ lastSnapshot # NoResult

\* C10 as stated: the second of two snapshots with no Add or ResetAll in
\* between is identical to the first.
C10_Identical ==
    [][\A t \in Threads : SecondSnapshot(t) => result'[t] = lastSnapshot]_vars

\* C10 as amended: the second of two snapshots with no Add or ResetAll in
\* between holds the same series entries as the first (the same label sets
\* with the same percentile estimates), in an order that may differ.
C10_SameEntries ==
    [][\A t \in Threads : SecondSnapshot(t) => SameEntries(result'[t], lastSnapshot)]_vars

\* C10 witness: two snapshots of the same two series, built with no write in
\* between, that list them in different orders.
C10_Witness ==
    \E t \in Threads :
        /\ pc[t] = "MarshalRUnlock"
        /\ lastSnapshot # NoResult
        /\ Len(result[t].value) = 2
        /\ result[t] # lastSnapshot

GeneratorCalled(fn) == pc[Caller] = "generated" /\ args[Caller].fn = fn

\* C11 as stated: LogarithmicSizedBucketsFor(lower, upper) with upper > 1
\* returns ceil(log2(upper)) starts with starts[i] = 2^i from i = 0 on, so
\* that an upper of 10 yields [1, 2, 4, 8].
C11_PowersOfTwo ==
    GeneratorCalled("LogarithmicSizedBucketsFor") =>
        LET starts == result[Caller].value
            upper == args[Caller].upper
        IN  /\ \A i \in 1..Len(starts) : starts[i] = Pow2(i - 1)
            /\ upper = 10 => starts = <<1, 2, 4, 8>>

\* C11, amended: LogarithmicSizedBucketsFor(lower, upper) with upper > 1
\* returns exactly ceil(log2(upper)) strictly ascending starts, the first
\* of them 0 and the one at Go index i >= 1 equal to 2^i, whatever lower
\* is; an upper of 10 yields [0, 2, 4, 8].
C11_ZeroThenPowersOfTwo ==
    GeneratorCalled("LogarithmicSizedBucketsFor") =>
        LET starts == result[Caller].value
            upper == args[Caller].upper
            n == Len(starts)
        IN  /\ n >= 1
            /\ Pow2(n) >= upper
            /\ Pow2(n - 1) < upper
            /\ starts[1] = 0
            /\ \A i \in 2..n : starts[i] = Pow2(i - 1)
            /\ \A i \in 1..(n - 1) : starts[i] < starts[i + 1]
            /\ \A lower \in Lowers : starts = LogarithmicSizedBucketsFor(lower, upper)
            /\ upper = 10 => starts = <<0, 2, 4, 8>>

C11_Witness ==
    /\ GeneratorCalled("LogarithmicSizedBucketsFor")
    /\ args[Caller].upper = 10
    /\ args[Caller].lower # 0
    /\ result[Caller].value = <<0, 2, 4, 8>>

\* C12: EquallySizedBucketsFor(lower, upper, count) with lower < upper and
\* count >= 1 returns exactly count starts, the one at Go index i equal to
\* lower + i * (upper - lower) / count, strictly ascending, the first equal
\* to lower and none equal to upper; (0, 10, 5) yields [0, 2, 4, 6, 8].
C12_EquallySized ==
    GeneratorCalled("EquallySizedBucketsFor") =>
        LET starts == result[Caller].value
            lower == args[Caller].lower
            upper == args[Caller].upper
            count == args[Caller].count
        IN  /\ Len(starts) = count
            /\ \A i \in 1..count :
                   RatEq(starts[i], Rat(lower * count + (i - 1) * (upper - lower), count))
            /\ \A i \in 1..(count - 1) : RatLess(starts[i], starts[i + 1])
            /\ RatEq(starts[1], RatOf(lower))
            /\ \A i \in 1..count : ~RatEq(starts[i], RatOf(upper))
            /\ (lower = 0 /\ upper = 10 /\ count = 5) =>
                   \A i \in 1..5 : RatEq(starts[i], RatOf(2 * (i - 1)))

C12_Witness ==
    /\ GeneratorCalled("EquallySizedBucketsFor")
    /\ args[Caller].lower = 0
    /\ args[Caller].upper = 10
    /\ args[Caller].count = 5
    /\ Len(result[Caller].value) = 5

Queried == pc[Caller] = "queried"

QueriedCounts == observationsByBucket(values[histogram[Caller]].buckets)

\* C13: for a series whose buckets all report a count of zero,
\* bucketForPercentile selects bucket 0 at index 0 for every p and does not
\* panic; and it takes this fallback only then: with a total of at least 1
\* the walk returns from inside the loop.
C13_DegenerateQuery ==
    Queried =>
        LET e == result[Caller].value
            total == SumSeq(QueriedCounts)
        IN  /\ total = 0 => (e.bucket = 0 /\ e.index = 0 /\ ~e.panicked /\ e.how = "fallback")
            /\ total >= 1 => e.how # "fallback"

C13_Witness ==
    /\ Queried
    /\ Len(QueriedCounts) >= 2
    /\ SumSeq(QueriedCounts) = 0
    /\ args[Caller].percentile = PctDen
    /\ result[Caller].value = Element(0, 0, "fallback")

SnapshotBuilt == pc[Caller] = "MarshalRUnlock" /\ result[Caller].kind = "histogram"

\* The signatures added since the last ResetAll.
AddedSinceReset == {s \in Signatures : addCalls[s] > 0}

\* The snapshot has one entry per series added since the last ResetAll, each
\* with the labels of its series and with estimates as EntryOK says.
OneEntryPerSeries(EntryOK(_, _)) ==
    /\ DOMAIN values = AddedSinceReset
    /\ \E o \in Orders(DOMAIN values) :
           /\ Len(result[Caller].value) = Len(o)
           /\ \A i \in 1..Len(o) :
                  /\ result[Caller].value[i].labels = values[o[i]].labels
                  /\ EntryOK(result[Caller].value[i].value, values[o[i]].buckets)

\* The entry has a value for every configured percentile, the estimate for it.
EveryPercentile(estimates, buckets) ==
    \A j \in 1..Len(reportablePercentiles) :
        /\ formatFloat(reportablePercentiles[j]) \in DOMAIN estimates
        /\ estimates[formatFloat(reportablePercentiles[j])]
               = percentile(buckets, reportablePercentiles[j])

\* The entry has a value for every formatted percentile, the estimate for the
\* last configured percentile that formats so.
EveryFormattedPercentile(estimates, buckets) ==
    /\ DOMAIN estimates =
           {formatFloat(reportablePercentiles[j]) : j \in 1..Len(reportablePercentiles)}
    /\ \A j \in 1..Len(reportablePercentiles) :
           (\A k \in (j + 1)..Len(reportablePercentiles) :
                formatFloat(reportablePercentiles[k]) # formatFloat(reportablePercentiles[j]))
           => estimates[formatFloat(reportablePercentiles[j])]
                  = percentile(buckets, reportablePercentiles[j])

\* C14 as stated: the snapshot has exactly one entry per tracked series (one
\* per signature added since the last ResetAll), with the series' labels and,
\* for each configured percentile, one value equal to its estimate.
C14_EveryPercentile == SnapshotBuilt => OneEntryPerSeries(EveryPercentile)

\* What AsMarshallable gives instead: one entry per tracked series, with the
\* series' labels and one value per formatted percentile; configured
\* percentiles that format alike share one value, the estimate for the last
\* of them in the configured list.
SnapshotPerFormattedPercentile == SnapshotBuilt => OneEntryPerSeries(EveryFormattedPercentile)

\* C14 witness: a snapshot of two series under two percentiles that format
\* alike and have different estimates for one of the series.
C14_Witness ==
    /\ SnapshotBuilt
    /\ Cardinality(DOMAIN values) = 2
    /\ Len(reportablePercentiles) = 2
    /\ formatFloat(reportablePercentiles[1]) = formatFloat(reportablePercentiles[2])
    /\ \E s \in DOMAIN values :
           percentile(values[s].buckets, reportablePercentiles[1])
               # percentile(values[s].buckets, reportablePercentiles[2])

\* C15: the panic of nextNonEmptyBucketElement is unreachable: for every
\* vector of bucket counts and every p, whenever the sub-index equals the
\* count of the bucket the walk stopped at, a later bucket is non-empty and
\* its element 0 is returned.
C15_NoPanic ==
    Queried =>
        LET e == result[Caller].value
        IN  /\ ~e.panicked
            /\ ~result[Caller].panicked
            /\ e.how # "panic"
            /\ e.how = "next" => (e.index = 0 /\ QueriedCounts[e.bucket + 1] # 0)

C15_Witness ==
    /\ Queried
    /\ Len(QueriedCounts) >= 3
    /\ QueriedCounts[1] = 0
    /\ QueriedCounts[Len(QueriedCounts)] = 0
    /\ \E i \in 2..(Len(QueriedCounts) - 2) :
           /\ QueriedCounts[i] # 0
           /\ QueriedCounts[i + 1] = 0
           /\ \E k \in (i + 2)..Len(QueriedCounts) : result[Caller].value = Element(k - 1, 0, "next")

\* C16: the writes are linearizable and lose no observation: whenever no
\* goroutine is inside Add or ResetAll, the map is the one obtained by running
\* the Adds and ResetAlls one at a time in the order they got the lock; it has
\* exactly the series of the signatures added after the last ResetAll, and the
\* bucket counts of each add up to the number of Adds for its signature that
\* got the lock after the last ResetAll.
C16_Linearizable ==
    (\A t \in Threads : ~InWrite(t)) =>
        /\ values = lin
        /\ DOMAIN values = {s \in Signatures : addCalls[s] >= 1}
        /\ \A s \in DOMAIN values : SeriesTotal(values[s]) = addCalls[s]

\* C16 witness: every call has returned and two series stand, one sample each,
\* the second of them added by an Add that waited for the lock.
C16_Witness ==
    /\ \A t \in Threads : pc[t] = "idle"
    /\ Cardinality(DOMAIN values) = 2
    /\ \A s \in DOMAIN values : SeriesTotal(values[s]) = 1 /\ addCalls[s] = 1

\* C17: in every state every tracked series has as many buckets as there are
\* boundaries, no step changes the length of the bucket array of a series that
\* stays tracked, and no step of Add, ResetAll, AsMarshallable or String
\* changes the boundary array.
C17_BucketArrayFixed ==
    /\ [](\A s \in DOMAIN values : Len(values[s].buckets) = Len(bucketStarts))
    /\ [][\A s \in DOMAIN values \cap DOMAIN values' :
              Len(values'[s].buckets) = Len(values[s].buckets)]_vars
    /\ [][bucketStarts' = bucketStarts]_vars

\* C17 witness: ResetAll has cleared the buckets of a series over two
\* boundaries and has not removed it yet.
C17_Witness ==
    \E t \in Threads :
        /\ pc[t] = "ResetDelete"
        /\ Len(bucketStarts) = 2
        /\ values[histogram[t]].buckets = <<(<<>>), <<>>>>

AddFindStep(t) == pc[t] = "AddLookup" /\ pc'[t] = "AddRoute"

AddRouteStep(t) == pc[t] = "AddRoute" /\ pc'[t] = "AddUnlock"

\* C18: Add changes only the series of its signature.  Its lookup leaves every
\* tracked series as it is: for a tracked signature it calls the bucket factory
\* zero times and keeps the tracked signatures and the stored label set; for an
\* untracked one it calls the factory once per boundary and stores a series of
\* that many empty buckets.  Its forwarding raises the count of the routed
\* bucket by one and changes no other bucket and no other series.
C18_AddFrame ==
    [][\A t \in Threads :
          LET signature == LabelsToSignature(args[t].labels)
          IN  /\ AddFindStep(t) =>
                     /\ \A s \in DOMAIN values : s \in DOMAIN values' /\ values'[s] = values[s]
                     /\ signature \in DOMAIN values =>
                            (made'[t] = 0 /\ DOMAIN values' = DOMAIN values)
                     /\ signature \notin DOMAIN values =>
                            /\ made'[t] = Len(bucketStarts)
                            /\ DOMAIN values' = DOMAIN values \cup {signature}
                            /\ values'[signature].buckets = [i \in 1..Len(bucketStarts) |-> <<>>]
              /\ AddRouteStep(t) =>
                     /\ DOMAIN values' = DOMAIN values
                     /\ made'[t] = made[t]
                     /\ \A s \in DOMAIN values \ {signature} : values'[s] = values[s]
                     /\ values'[signature].labels = values[signature].labels
                     /\ \E i \in 1..Len(bucketStarts) :
                            /\ i = lastIndex(bucketStarts, args[t].value) + 1
                            /\ Observations(values'[signature].buckets[i])
                                   = Observations(values[signature].buckets[i]) + 1
                            /\ \A j \in 1..Len(bucketStarts) \ {i} :
                                   values'[signature].buckets[j] = values[signature].buckets[j]]_vars

\* C18 witness: an Add has created its series of two buckets, calling the
\* factory twice, beside another tracked series, and has forwarded its value.
C18_Witness ==
    \E t \in Threads :
        /\ pc[t] = "AddUnlock"
        /\ made[t] = 2
        /\ Len(bucketStarts) = 2
        /\ SeriesTotal(values[histogram[t]]) = 1
        /\ Cardinality(DOMAIN values) = 2

\* The element a snapshot asks of a series for a percentile lies inside its
\* bucket, and is not the fallback of line 265.
AsksInsideBucket(buckets, p) ==
    LET e == bucketForPercentile(buckets, p)
    IN  /\ ~e.panicked
        /\ e.how # "fallback"
        /\ 0 <= e.index
        /\ e.index < Observations(buckets[e.bucket + 1])

\* C19: whenever the lock is not held in write mode every tracked series
\* holds at least one observation; so a snapshot, which runs under the read
\* lock, never takes the empty-series fallback and never asks a bucket for a
\* value at an index at or past its count.
C19_NoEmptySeries ==
    /\ ~mutex.held => \A s \in DOMAIN values : SeriesTotal(values[s]) >= 1
    /\ \A t \in Threads :
           pc[t] \in {"MarshalBody", "MarshalRUnlock"} =>
               \A s \in DOMAIN values :
                   \A i \in 1..Len(reportablePercentiles) :
                       AsksInsideBucket(values[s].buckets, reportablePercentiles[i])

\* C19 witness: a snapshot is being built of a series over two boundaries
\* holding two samples, with no writer holding the lock.
C19_Witness ==
    \E t \in Threads :
        /\ pc[t] = "MarshalBody"
        /\ ~mutex.held
        /\ \E s \in DOMAIN values :
               /\ Len(values[s].buckets) = 2
               /\ Observations(values[s].buckets[1]) = 2

====
